---- MODULE Spec2Model ----
(***************************************************************************)
(* A model of the star tracker core of alexhelms/starcamera:               *)
(*   StarIdentifier (catalog back-ends, two-star and pyramid methods) and  *)
(*   StarCamera (thresholding, spot extraction, projection).               *)
(*                                                                         *)
(* Angles.  The code works on float angles in degrees.  The model keeps    *)
(* every angle as an integer number of units, UnitsPerDegree units to the  *)
(* degree, and places every direction vector on one great circle: a vector *)
(* is its position (in units) on that circle and the angle between two     *)
(* vectors, acos(a.b/(|a||b|)) * 180/pi, is the absolute difference of     *)
(* their positions.                                                        *)
(***************************************************************************)
EXTENDS Integers, Sequences, FiniteSets, TLC

\* ---------------------------------------------------------------- bounds
\* Largest position (in units) of a star or a spot on the great circle.
MaxPos == 6
\* Largest number of stars of a catalog.
MaxStars == 4
\* Largest number of direction vectors handed to a pyramid method.
MaxSpots == 5
\* Largest number of direction vectors handed to the pyramid method on
\* the k-vector.
MaxKVSpots == 4
\* Largest number of direction vectors handed to the two-star method.
MaxTwoStarSpots == 3
\* Largest tolerance eps (in units).
MaxEps == 2
\* Angle units per degree (the resolution of the model's angles).
UnitsPerDegree == 2
\* Rounds of the validation loop the model follows after falseStars has
\* passed nSpots.
MaxExtraFalse == 1
\* identifyStars calls followed in one session.
MaxCalls == 2
\* Largest step M of a k-vector file (in units).
MaxStep == 2

\* Largest width and height (in pixels) of a bright rectangle of a frame.
MaxBlobW == 18
MaxBlobH == 2
\* Pixel values and thresholds lie within LevelSpread of the default
\* threshold; minimum areas within AreaSpread of the default minimum area.
LevelSpread == 1
AreaSpread == 2
\* extractSpots calls followed in one camera session.
MaxExtractions == 2
\* Number of image files named on the command line of the driver.
MaxFiles == 2

\* ------------------------------------------------------ program constants
\* "At least 4 star spots necessary".
MinPyramidSpots == 4
\* StarCamera(): mThreshold(64), mMinArea(16).
DefaultThreshold == 64
DefaultMinArea == 16
\* if(area > 16), if(*row > 16) in the connected-components methods.
ComponentAreaLimit == 16
\* stats.at<int>(label, 4) > 15 and the value 129 written to mThreshed.
MarkAreaLimit == 15
MarkValue == 129
\* pi as the ratio PiNum / PiDen.
PiNum == 355
PiDen == 113

\* ---------------------------------------------------------------- helpers
Abs(x) == IF x < 0 THEN -x ELSE x

\* unsigned and int are 32 bits wide.  An unsigned value is kept as the
\* int with the same 32 bits: u stands for u when u >= 0 and for 2^32 + u
\* when u < 0, and sums and differences of such ints have the bits of the
\* unsigned result.  a < b on two unsigned values:
UnsignedLess(a, b) == IF (a < 0) = (b < 0) THEN a < b ELSE b < 0

Range(s) == {s[i] : i \in DOMAIN s}

RECURSIVE SeqSum(_)
SeqSum(s) == IF s = <<>> THEN 0 ELSE Head(s) + SeqSum(Tail(s))

\* ------------------------------------------------------------- Feature2
Feature2(a, b, t) == [id1 |-> a, id2 |-> b, theta |-> t]

Contains(f, h) == f.id1 = h \/ f.id2 = h

\* ------------------------------------------------------------- catalogs
\* A sky: star id n stands at position sky[n]; the ids are 1..Len(sky).
Skies ==
    UNION {{s \in [1..n -> 0..MaxPos] :
              /\ s[1] = 0
              /\ \A a \in 1..(n - 1) : s[a] < s[a + 1]} : n \in 2..MaxStars}

FeatureLess(f, g) ==
    \/ f.theta < g.theta
    \/ f.theta = g.theta /\ f.id1 < g.id1
    \/ f.theta = g.theta /\ f.id1 = g.id1 /\ f.id2 < g.id2

RECURSIVE SortFeatures(_)
SortFeatures(S) ==
    IF S = {} THEN <<>>
    ELSE LET m == CHOOSE f \in S : \A g \in S \ {f} : FeatureLess(f, g)
         IN  <<m>> \o SortFeatures(S \ {m})

\* The feature list of a sky: one feature per pair of stars, id1 < id2,
\* sorted by theta ascending.
CatalogOf(s) ==
    SortFeatures({Feature2(a, b, s[b] - s[a]) :
                    <<a, b>> \in {p \in (1..Len(s)) \X (1..Len(s)) : p[1] < p[2]}})

\* Input vector lists of lo..hi vectors for the first identifyStars call
\* of a session: distinct positions in ascending order, the first at 0
\* (only the differences of positions enter the identification).
InputLists(lo, hi) ==
    UNION {{v \in [1..n -> 0..MaxPos] :
              /\ v[1] = 0
              /\ \A a \in 1..(n - 1) : v[a] < v[a + 1]} : n \in lo..hi}

Perms(n) == {p \in [1..n -> 1..n] : \A a, b \in 1..n : p[a] = p[b] => a = b}

\* The tolerances passed as eps, in units: the float of the command line
\* may be negative.
Tolerances == (-1)..MaxEps

\* ---------------------------------------------------------------- state
VARIABLES
    sky,            \* the catalog on disk (db-file and k-vector file)
    mOpenDb,        \* StarIdentifier::mOpenDb
    mDb,            \* rows of table featureList of the in-memory database
    mFeatureList,   \* StarIdentifier::mFeatureList
    mKVector,       \* StarIdentifier::mKVector
    mQ,             \* StarIdentifier::mQ
    mM,             \* StarIdentifier::mM
    pc,             \* position of the running identifyStars call
    method,         \* its IdentificationMethod
    eps,            \* its tolerance
    starVectors,    \* its input vectors
    idTable,        \* identify2StarMethod: per spot, map hip -> votes
    idList,         \* the id list built by the running call
    falseStars,     \* identify2StarMethod: falseStars
    unidentifiedStars, \* identify2StarMethod: unidentifiedStars
    votes,          \* identify2StarMethod: votes
    triadIdx,       \* pyramid: position in the dj/dk/i loop nest
    identificationComplete, \* pyramid: identificationComplete
    outcome,        \* how the last call ended
    calls,          \* identifyStars calls made so far
    prevVectors,    \* input of the previous completed call
    prevIdList,     \* its returned id list
    prevOutcome,    \* its outcome
    query,          \* the last call of retrieveFeatureListKVector
    mFrame,         \* StarCamera::mFrame
    mThreshold,     \* StarCamera::mThreshold
    mMinArea,       \* StarCamera::mMinArea
    mThreshed,      \* StarCamera::mThreshed
    mSpots,         \* StarCamera::mSpots
    centroiding,    \* the CentroidingMethod of the last extractSpots
    camOutcome,     \* how the last StarCamera call ended
    extractions,    \* extractSpots calls made so far
    lastExtract,    \* per centroiding method: its calls, and the frame and
                    \* the spot list of its last call
    mCalibration,   \* StarCamera: principal point, skew, distortion, focal length
    lastLoad,       \* the last call that read a file, and how it ended
    pcMain,         \* position of main()
    exitStatus,     \* how the driver process ended
    filesLeft,      \* file names of the command line not yet processed
    mSpotVectors,   \* StarCamera::mSpotVectors
    stmts           \* the sqlite3_stmt handles sqlStmt and sqlFinal of the
                    \* identification call

idVars == <<pc, method, eps, starVectors, idTable, idList, falseStars,
            unidentifiedStars, votes, triadIdx, identificationComplete,
            outcome, calls,
            prevVectors, prevIdList, prevOutcome, stmts>>
dbVars == <<sky, mOpenDb, mDb, mFeatureList, mKVector, mQ, mM>>
kvVars == <<query>>
camVars == <<mFrame, mThreshold, mMinArea, mThreshed, mSpots, centroiding,
             camOutcome, extractions, lastExtract, mCalibration>>
loadVars == <<lastLoad>>
mainVars == <<pcMain, exitStatus, filesLeft, mSpotVectors>>
vars == <<dbVars, idVars, kvVars, camVars, loadVars, mainVars>>

\* -------------------------------------------------------- catalog store
\* SELECT * FROM featureList WHERE theta > ? AND theta < ?
SqlRange(db, lo, hi) == SelectSeq(db, LAMBDA f : f.theta > lo /\ f.theta < hi)

\* createFeatureList2: the angle of the observed feature (i, j).
ObservedTheta(v, i, j) == Abs(v[i] - v[j])


\* ------------------------------------------------- identify2StarMethod
\* The hips of the rows of a query result.
RowIds(rows) == {rows[k].id1 : k \in DOMAIN rows} \cup {rows[k].id2 : k \in DOMAIN rows}

\* Increments idTable[spot][h] receives from the rows of one query:
\* one for every row whose hip1 is h and one for every row whose hip2 is h.
RowVotes(rows, h) ==
    Cardinality({k \in DOMAIN rows : rows[k].id1 = h})
    + Cardinality({k \in DOMAIN rows : rows[k].id2 = h})

\* The rows the voting phase retrieves for the observed feature (i, j):
\* theta > it->theta - eps AND theta < it->theta + eps.
VotingRows(db, v, e, i, j) ==
    SqlRange(db, ObservedTheta(v, i, j) - e, ObservedTheta(v, i, j) + e)

\* idTable[i][h] after the voting phase (0 when the key was never touched).
SpotVotes(db, v, e, i, h) ==
    SeqSum([j \in 1..Len(v) |->
              IF j = i THEN 0 ELSE RowVotes(VotingRows(db, v, e, i, j), h)])

\* The voting phase: idTable[i] is a map whose keys are the hips that
\* received at least one vote on spot i.
VotingPhase(db, v, e) ==
    [i \in 1..Len(v) |->
       LET keys == {h \in RowIds(db) : SpotVotes(db, v, e, i, h) > 0}
       IN  [h \in keys |-> SpotVotes(db, v, e, i, h)]]

\* A variant of MaxElementKey that returns the last of the keys with the
\* largest count.
MaxElementKeyLast(m) ==
    CHOOSE k \in DOMAIN m :
        \A k2 \in DOMAIN m : m[k2] < m[k] \/ (m[k2] = m[k] /\ k2 <= k)

\* std::max_element(m.begin(), m.end(), pred)->first: the first key, in
\* ascending key order, whose count no other key exceeds.
MaxElementKey(m) ==
    CHOOSE k \in DOMAIN m :
        \A k2 \in DOMAIN m : m[k2] < m[k] \/ (m[k2] = m[k] /\ k <= k2)

\* Initialisation of idList: -1 for a spot with an empty map, else the
\* hip with the most votes.
InitialIdList(table) ==
    [i \in DOMAIN table |->
       IF DOMAIN table[i] = {} THEN -1 ELSE MaxElementKey(table[i])]

InitialFalseStars(table) == Cardinality({i \in DOMAIN table : DOMAIN table[i] = {}})

\* nSpots - falseStars - 1, computed in unsigned arithmetic.
Threshold(n, f) == n - f - 1

\* theta = sqlite3_column_int(sqlStmt, 2): the REAL column read as an
\* integer (whole degrees), stored in a float.
ColumnInt(t) == (t \div UnitsPerDegree) * UnitsPerDegree

\* SELECT * FROM featureList WHERE hip1 == ? AND hip2 == ?, first row; the
\* angle read from it, 0 when the query has no row.
PairTheta(db, star1, star2) ==
    LET rows == SelectSeq(db, LAMBDA f : f.id1 = star1 /\ f.id2 = star2)
    IN  IF rows = <<>> THEN 0 ELSE ColumnInt(rows[1].theta)

\* std::find_if(featureList, FeatureComparer(star1, star2)) finds an
\* observed feature: the observed list holds (i, j) for the 0-based spot
\* indices i < j, and is searched for the two hips.
AngleFound(n, star1, star2) == 0 <= star1 /\ star1 < star2 /\ star2 <= n - 1

\* The spot pairs i < j of a round that are both identified.
ComparedPairs(ids) ==
    {p \in (DOMAIN ids) \X (DOMAIN ids) : p[1] < p[2] /\ ids[p[1]] >= 0 /\ ids[p[2]] >= 0}

\* The compared pairs for which find_if returns end(): angle->theta then
\* reads past the end of the observed feature list.
DanglingPairs(ids) ==
    {p \in ComparedPairs(ids) : ~AngleFound(Len(ids), ids[p[1]], ids[p[2]])}

\* The floats that may be found past the end of the observed feature
\* list: any angle, or a value far from every angle.
StaleThetas == (0..MaxPos) \cup {-(MaxPos + MaxEps + 1)}

\* angle->theta for the hips of a compared pair: the angle of the observed
\* feature found, or, for a dangling pair, the float ub that lies past the
\* end of the list (the same address at every read of a round).
AngleTheta(v, star1, star2, ub) ==
    IF AngleFound(Len(v), star1, star2)
    THEN ObservedTheta(v, star1 + 1, star2 + 1)
    ELSE ub

\* fabs(theta - angle->theta) <= eps for the pair p.
PairConfirmed(db, v, e, ids, p, ub) ==
    Abs(PairTheta(db, ids[p[1]], ids[p[2]])
        - AngleTheta(v, ids[p[1]], ids[p[2]], ub)) <= e

\* The votes vector at the end of the two for loops of one round.
RoundVotes(db, v, e, ids, ub) ==
    LET n == Len(ids)
    IN  [x \in 1..n |->
           IF ids[x] < 0
           THEN IF x < n \/ (\E i \in 1..(x - 1) : ids[i] >= 0) THEN n ELSE 0
           ELSE Cardinality({p \in ComparedPairs(ids) :
                               /\ x \in {p[1], p[2]}
                               /\ PairConfirmed(db, v, e, ids, p, ub)})]

\* std::min(votes.begin(), votes.end()) - votes.begin(): std::min compares
\* the two iterators, and begin() is not after end().
MinIndex(vts) == 1


\* idTable[minIndex][key] = val on a std::map (the key is inserted when absent).
MapPut(m, key, val) == [x \in DOMAIN m \cup {key} |-> IF x = key THEN val ELSE m[x]]

\* The loop condition: unidentifiedStars < (nSpots - falseStars - 1).
LoopCondition ==
    UnsignedLess(unidentifiedStars, Threshold(Len(starVectors), falseStars))

\* The sqlite3_stmt handles of a call: "none" before sqlite3_prepare_v2,
\* "prepared" after it, "finalized" after sqlite3_finalize.
NoStmts == [sqlStmt |-> "none", sqlFinal |-> "none"]

Prepare(s, h) == [s EXCEPT ![h] = "prepared"]

Finalize(s, h) == [s EXCEPT ![h] = "finalized"]

\* Entry of identify2StarMethod up to the first test of the while loop:
\* the handle of the voting query is finalized after the voting, and
\* sqlStmt then holds the handle of the validation query.
Begin2Star(v, e) ==
    IF ~mOpenDb
    THEN /\ outcome' = "NoDatabase"
         /\ pc' = "idle"
         /\ idList' = <<>>
         /\ stmts' = NoStmts
         /\ UNCHANGED <<idTable, falseStars, unidentifiedStars, votes>>
    ELSE LET table == VotingPhase(mDb, v, e)
         IN  /\ idTable' = table
             /\ stmts' = Prepare(Finalize(Prepare(NoStmts, "sqlStmt"), "sqlStmt"),
                                 "sqlStmt")
             /\ idList' = InitialIdList(table)
             /\ falseStars' = InitialFalseStars(table)
             /\ unidentifiedStars' = 0
             /\ votes' = <<>>
             /\ outcome' = "running"
             /\ pc' = "validate"

\* One pass through the body of the while loop.
ValidationRound ==
    /\ pc = "validate"
    /\ LoopCondition
    /\ falseStars <= Len(starVectors) + MaxExtraFalse
    /\ \E ub \in (IF DanglingPairs(idList) = {} THEN {0} ELSE StaleThetas) :
         LET n == Len(starVectors)
             vts == RoundVotes(mDb, starVectors, eps, idList, ub)
             minIndex == MinIndex(vts)
             unid == vts[minIndex]
             table == [idTable EXCEPT
                         ![minIndex] = MapPut(@, idList[minIndex], 0)]
             maxElem == MaxElementKey(table[minIndex])
         IN  /\ votes' = vts
             /\ unidentifiedStars' = unid
             /\ IF UnsignedLess(unid, Threshold(n, falseStars))
                THEN /\ idTable' = table
                     /\ IF table[minIndex][maxElem] < 1
                        THEN /\ idList' = [idList EXCEPT ![minIndex] = -1]
                             /\ falseStars' = falseStars + 1
                        ELSE /\ idList' = [idList EXCEPT ![minIndex] = maxElem]
                             /\ falseStars' = falseStars
                ELSE UNCHANGED <<idTable, idList, falseStars>>
    /\ UNCHANGED <<pc, method, eps, starVectors, outcome, calls,
                   triadIdx, identificationComplete,
                   prevVectors, prevIdList, prevOutcome, stmts>>
    /\ UNCHANGED <<dbVars, kvVars, camVars, loadVars, mainVars>>

\* A variant of PruneIds that erases the entries it rejects.
PruneIdsErasing(ids, vts, thr) ==
    SelectSeq([i \in DOMAIN ids |-> IF UnsignedLess(vts[i], thr) THEN -1 ELSE ids[i]],
              LAMBDA h : h # -1)

\* "Remove the hip for stars where the votes are not sufficient enough":
\* idList[i] = -1 where votes[i] < nSpots - falseStars - 1.
PruneIds(ids, vts, thr) ==
    [i \in DOMAIN ids |-> IF UnsignedLess(vts[i], thr) THEN -1 ELSE ids[i]]

\* Exit of the while loop: the final removal of hips and the return.  (The
\* loop body has run at least once when the loop is left: the threshold is
\* 0 only when falseStars = nSpots - 1, and votes are given to spots in
\* pairs.)
ValidationExit ==
    /\ pc = "validate"
    /\ ~LoopCondition
    /\ Len(votes) = Len(starVectors)
    /\ idList' = PruneIds(idList, votes, Threshold(Len(starVectors), falseStars))
    /\ stmts' = Finalize(stmts, "sqlStmt")
    /\ outcome' = "ok"
    /\ pc' = "idle"
    /\ UNCHANGED <<method, eps, starVectors, idTable, falseStars,
                   unidentifiedStars, votes, calls,
                   triadIdx, identificationComplete,
                   prevVectors, prevIdList, prevOutcome>>
    /\ UNCHANGED <<dbVars, kvVars, camVars, loadVars, mainVars>>


\* ------------------------------------------- retrieveFeatureListKVector
\* Division of two floats followed by truncation towards zero.
TruncDiv(a, m) == IF a >= 0 THEN a \div m ELSE -((-a) \div m)

\* (unsigned) x for a float x already truncated.  A negative value is not
\* representable: the conversion is undefined, and the builds give 0 (a
\* saturating conversion) or the value modulo 2^32.
FloatToUnsigned(x, ub) ==
    IF x >= 0 THEN x ELSE IF ub.neg = "sat" THEN 0 ELSE x

\* The outcomes of the undefined reads of one step: the conversion of a
\* negative float, the int found past the end of mKVector (any int; the
\* model follows an int below, one inside and one above the indices of
\* mFeatureList), and whether a read past the end of mFeatureList traps.
UBChoices ==
    [neg : {"sat", "wrap"}, k : {-1, 0, Len(mFeatureList)}, trap : BOOLEAN]

NoUB == [neg |-> "sat", k |-> 0, trap |-> TRUE]

\* What a read past the end of mFeatureList yields when it does not trap.
GarbageFeature == Feature2(0, 0, 0)

\* jb and jt of a query.
StepJb(thetaMin, ub) == FloatToUnsigned(TruncDiv(thetaMin - mQ, mM), ub)
StepJt(thetaMax, ub) == FloatToUnsigned(TruncDiv(thetaMax - mQ, mM), ub) + 1

\* mKVector[j]: operator[] does not check j.
KRead(j, ub) == IF 0 <= j /\ j < Len(mKVector) THEN mKVector[j + 1] ELSE ub.k

\* kb and kt of a query.
BottomIndex(thetaMin, ub) == KRead(StepJb(thetaMin, ub), ub) + 1
TopIndex(thetaMax, ub) == KRead(StepJt(thetaMax, ub), ub)

\* The 0-based indices at which the for loop reads mFeatureList.
IndicesRead(thetaMin, thetaMax, ub) ==
    [first |-> BottomIndex(thetaMin, ub), last |-> TopIndex(thetaMax, ub)]

\* The for loop runs at least once: i = kb, i <= kt.
LoopRuns(r) == ~UnsignedLess(r.last, r.first)

\* The loop over the indices r reads past the end of mFeatureList.
PastEnd(r) == LoopRuns(r) /\ (r.last < 0 \/ r.last >= Len(mFeatureList))

\* The features pushed by the loop for (i = kb; i <= kt; i++).  A loop
\* that runs to the largest unsigned leaves the address space.
Slice(r, ub) ==
    LET top == IF PastEnd(r) THEN Len(mFeatureList) - 1 ELSE r.last
        inside == [x \in 1..(top - r.first + 1) |-> mFeatureList[r.first + x]]
    IN  [list |-> IF ~LoopRuns(r) THEN <<>>
                  ELSE IF PastEnd(r) THEN inside \o <<GarbageFeature>>
                  ELSE inside,
         crash |-> PastEnd(r) /\ (ub.trap \/ r.last < 0)]

\* retrieveFeatureListKVector(thetaMin, thetaMax, output): the slice
\* mFeatureList[kb .. kt].
RetrieveFeatureListKVector(thetaMin, thetaMax, ub) ==
    Slice(IndicesRead(thetaMin, thetaMax, ub), ub)

\* retrieveFeatureListKVector(thetaMin, thetaMax, hip, output): the same
\* slice, keeping the features that hold hip.
KeepHip(all, hip) ==
    [list |-> SelectSeq(all.list, LAMBDA f : Contains(f, hip)),
     crash |-> all.crash]

RetrieveFeatureListKVectorHip(thetaMin, thetaMax, hip, ub) ==
    KeepHip(RetrieveFeatureListKVector(thetaMin, thetaMax, ub), hip)

\* ----------------------------------------------------------- back-ends
\* SELECT * ... WHERE (theta > ? AND theta < ?) AND (hip1 = ? OR hip2 = ?)
SqlRangeHip(db, lo, hi, hip) ==
    SelectSeq(db, LAMBDA f : f.theta > lo /\ f.theta < hi /\ Contains(f, hip))

\* The list of candidates for an angle, from the back-end be.
CandidateList(be, theta, e, ub) ==
    IF be = "sql"
    THEN [list |-> SqlRange(mDb, theta - e, theta + e), crash |-> FALSE]
    ELSE RetrieveFeatureListKVector(theta - e, theta + e, ub)

CandidateListHip(be, theta, e, hip, ub) ==
    IF be = "sql"
    THEN [list |-> SqlRangeHip(mDb, theta - e, theta + e, hip), crash |-> FALSE]
    ELSE RetrieveFeatureListKVectorHip(theta - e, theta + e, hip, ub)


\* ------------------------------------------------ identifyPyramidMethod
\* The triads (i, j, k), 0-based, in the order of the three for loops:
\* dj outermost, then dk, then i.
TriadSteps(n) ==
    {t \in (1..(n - 2)) \X (1..(n - 2)) \X (0..(n - 3)) :
        t[2] < n - t[1] /\ t[3] < n - t[1] - t[2]}

StepLess(s, t) ==
    \/ s[1] < t[1]
    \/ s[1] = t[1] /\ s[2] < t[2]
    \/ s[1] = t[1] /\ s[2] = t[2] /\ s[3] < t[3]

RECURSIVE SortSteps(_)
SortSteps(S) ==
    IF S = {} THEN <<>>
    ELSE LET m == CHOOSE s \in S : \A t \in S \ {s} : StepLess(s, t)
         IN  <<m>> \o SortSteps(S \ {m})

TriadOrder(n) ==
    LET steps == SortSteps(TriadSteps(n))
    IN  [x \in DOMAIN steps |->
           [i |-> steps[x][3],
            j |-> steps[x][3] + steps[x][1],
            k |-> steps[x][3] + steps[x][1] + steps[x][2]]]

\* tempI, tempJ, tempK for one pair (itIJ, itIK) of the search for
\* triads; ok is FALSE where the code says continue.
TriadTemps(fij, fik) ==
    IF fij.id1 = fik.id1 \/ fij.id2 = fik.id1
    THEN [ok |-> TRUE, I |-> fik.id1,
          J |-> IF fij.id1 = fik.id1 THEN fij.id2 ELSE fij.id1,
          K |-> fik.id2]
    ELSE IF fij.id1 = fik.id2 \/ fij.id2 = fik.id2
    THEN [ok |-> TRUE, I |-> fik.id2,
          J |-> IF fij.id1 = fik.id2 THEN fij.id2 ELSE fij.id1,
          K |-> fik.id1]
    ELSE [ok |-> FALSE, I |-> -1, J |-> -1, K |-> -1]

\* The pairs (position in listIJ, position in listIK) at which count++
\* is executed.
TriadMatches(listIJ, listIK, listJK) ==
    {p \in (DOMAIN listIJ) \X (DOMAIN listIK) :
        LET t == TriadTemps(listIJ[p[1]], listIK[p[2]])
        IN  /\ t.ok
            /\ \E c \in DOMAIN listJK :
                   Contains(listJK[c], t.K) /\ Contains(listJK[c], t.J)}

\* The last pair of a non-empty set of pairs, in loop order.
LastPair(S) ==
    CHOOSE p \in S : \A q \in S : q[1] < p[1] \/ (q[1] = p[1] /\ q[2] <= p[2])

\* idCheck for one element of listIR.
IdCheck(fir, hipI) == IF fir.id1 = hipI THEN fir.id2 ELSE fir.id1

\* The pairs (position in listIR, position in listJR) at which count++
\* is executed in the check of a 4th star.
ConfirmMatches(listIR, listJR, listKR, hipI) ==
    {p \in (DOMAIN listIR) \X (DOMAIN listJR) :
        LET idCheck == IdCheck(listIR[p[1]], hipI)
        IN  /\ Contains(listJR[p[2]], idCheck)
            /\ \E c \in DOMAIN listKR : Contains(listKR[c], idCheck)}

\* The check of a 4th star from its three lists: whether a list read
\* crashed, whether the star is confirmed, and the id it is given (-1 when
\* idList[r] is left alone).
ConfirmResult(qIR, qJR, qKR, m, hipI) ==
    LET skip == qIR.list = <<>> \/ qJR.list = <<>> \/ qKR.list = <<>>
    IN  [crash |-> \/ qIR.crash
                   \/ qIR.list # <<>> /\ qJR.crash
                   \/ qIR.list # <<>> /\ qJR.list # <<>> /\ qKR.crash,
         confirmed |-> ~skip /\ Cardinality(m) = 1,
         id |-> IF ~skip /\ Cardinality(m) = 1
                THEN IdCheck(qIR.list[LastPair(m)[1]], hipI)
                ELSE -1]

ConfirmLists(qIR, qJR, qKR, hipI) ==
    ConfirmResult(qIR, qJR, qKR,
                  ConfirmMatches(qIR.list, qJR.list, qKR.list, hipI), hipI)

\* The body of the loop over r for one spot r (1-based) outside the triad
\* t with hips h.
ConfirmSpot(be, v, e, t, h, r, ub) ==
    ConfirmLists(CandidateListHip(be, ObservedTheta(v, t.i + 1, r), e, h.I, ub),
                 CandidateListHip(be, ObservedTheta(v, t.j + 1, r), e, h.J, ub),
                 CandidateListHip(be, ObservedTheta(v, t.k + 1, r), e, h.K, ub),
                 h.I)

\* A variant of TriadIds that leaves the loop over r at the first spot
\* that is confirmed.
TriadIdsFirstOnly(n, t, h, conf) ==
    [crash |-> \E r \in DOMAIN conf : conf[r].crash,
     ids |-> [x \in 1..n |->
                IF x = t.i + 1 THEN h.I
                ELSE IF x = t.j + 1 THEN h.J
                ELSE IF x = t.k + 1 THEN h.K
                ELSE IF \E r \in DOMAIN conf : r < x /\ conf[r].confirmed THEN -1
                ELSE conf[x].id],
     complete |-> \E r \in DOMAIN conf : conf[r].confirmed]

\* The ids after the loop over r for the triad t with hips h; conf[r] is
\* the check of spot r.
TriadIds(n, t, h, conf) ==
    [crash |-> \E r \in DOMAIN conf : conf[r].crash,
     ids |-> [x \in 1..n |->
                IF x = t.i + 1 THEN h.I
                ELSE IF x = t.j + 1 THEN h.J
                ELSE IF x = t.k + 1 THEN h.K
                ELSE conf[x].id],
     complete |-> \E r \in DOMAIN conf : conf[r].confirmed]

\* The triad t resolved to the hips h: the loop over the other spots.
TriadConfirm(be, v, e, t, h, ub) ==
    TriadIds(Len(v), t, h,
             [r \in (1..Len(v)) \ {t.i + 1, t.j + 1, t.k + 1} |->
                ConfirmSpot(be, v, e, t, h, r, ub)])

\* The triad search from its three lists and the matches m.
TriadResult(be, v, e, t, ub, qIJ, qIK, qJK, m) ==
    LET blank == [x \in 1..Len(v) |-> -1]
    IN  IF \/ qIJ.crash
           \/ qIJ.list # <<>> /\ qIK.crash
           \/ qIJ.list # <<>> /\ qIK.list # <<>> /\ qJK.crash
        THEN [crash |-> TRUE, ids |-> blank, complete |-> FALSE]
        ELSE IF qIJ.list = <<>> \/ qIK.list = <<>> \/ qJK.list = <<>>
                \/ Cardinality(m) # 1
        THEN [crash |-> FALSE, ids |-> blank, complete |-> FALSE]
        ELSE TriadConfirm(be, v, e, t,
                          TriadTemps(qIJ.list[LastPair(m)[1]],
                                     qIK.list[LastPair(m)[2]]), ub)

TriadLists(be, v, e, t, ub, qIJ, qIK, qJK) ==
    TriadResult(be, v, e, t, ub, qIJ, qIK, qJK,
                TriadMatches(qIJ.list, qIK.list, qJK.list))

\* The body of the innermost for loop for the triad t (0-based i, j, k):
\* the id list it leaves and whether identificationComplete is set.
TriadBody(be, v, e, t, ub) ==
    TriadLists(be, v, e, t, ub,
               CandidateList(be, ObservedTheta(v, t.i + 1, t.j + 1), e, ub),
               CandidateList(be, ObservedTheta(v, t.i + 1, t.k + 1), e, ub),
               CandidateList(be, ObservedTheta(v, t.j + 1, t.k + 1), e, ub))


\* -------------------------------------------------------------- openDb
\* openDb(): on success the in-memory database holds the feature list of
\* the db-file; a failing sqlite3_open leaves mOpenDb false.
OpenDb ==
    /\ pc = "idle"
    /\ calls = 0
    /\ \E ok \in BOOLEAN :
         /\ mOpenDb' = ok
         /\ mDb' = IF ok THEN CatalogOf(sky) ELSE <<>>
    /\ UNCHANGED <<sky, mFeatureList, mKVector, mQ, mM>>
    /\ UNCHANGED <<idVars, kvVars, camVars, loadVars, mainVars>>

\* ------------------------------------------------ loadFeatureListKVector
\* K of a k-vector file: for step j the 0-based index of the last feature
\* with theta <= Q + M*j (-1 when there is none).
KVectorOf(features, q, m) ==
    [x \in DOMAIN features |->
       Cardinality({y \in DOMAIN features :
                      features[y].theta <= q + m * (x - 1)}) - 1]

\* The pairs (Q, M) of the k-vector files of a feature list: the line
\* starts at or just below the smallest angle and reaches the largest
\* angle at its last step.
FileLines(features) ==
    LET n == Len(features)
    IN  {l \in ((features[1].theta - 1)..features[1].theta) \X (1..MaxStep) :
            l[1] + l[2] * (n - 1) >= features[n].theta}

\* The values the locals k, hip1, hip2, theta may hold in the pass of the
\* do-while loop in which no extraction succeeds: what the previous pass
\* left in them, or zeros.
StaleRecords(features, kvec) ==
    {[k |-> 0, f |-> Feature2(0, 0, 0)]}
    \cup (IF features = <<>> THEN {}
          ELSE {[k |-> kvec[Len(kvec)], f |-> features[Len(features)]]})

\* The record of a call that reads a file: which loader, whether the file
\* could be opened, and whether the call threw.
NoLoad == [op |-> "none", opened |-> TRUE, threw |-> FALSE]

LoadRecord(op, opened, threw) == [op |-> op, opened |-> opened, threw |-> threw]

\* loadFeatureListKVector(filename).  fileOk: the file opens; newline: the
\* text ends with a line break after its last record.
LoadKVectorFile ==
    \E fileOk \in BOOLEAN :
      /\ lastLoad' = LoadRecord("kvector", fileOk, ~fileOk)
      /\ IF ~fileOk
         THEN /\ mFeatureList' = <<>>
              /\ mKVector' = <<>>
              /\ UNCHANGED <<mQ, mM>>
         ELSE \E l \in FileLines(CatalogOf(sky)), newline \in BOOLEAN :
                LET features == CatalogOf(sky)
                    kvec == KVectorOf(features, l[1], l[2])
                IN  /\ mQ' = l[1]
                    /\ mM' = l[2]
                    /\ \E stale \in StaleRecords(features, kvec) :
                         /\ mFeatureList' = IF newline
                                            THEN Append(features, stale.f)
                                            ELSE features
                         /\ mKVector' = IF newline
                                        THEN Append(kvec, stale.k)
                                        ELSE kvec

\* A call of loadFeatureListKVector before the first identification.
LoadFeatureListKVector ==
    /\ pc = "idle"
    /\ calls = 0
    /\ ~query.made
    /\ LoadKVectorFile
    /\ UNCHANGED <<sky, mOpenDb, mDb>>
    /\ UNCHANGED <<idVars, kvVars, camVars, mainVars>>

\* ------------------------------------- calls of retrieveFeatureListKVector
NoQuery == [made |-> FALSE]

\* The record of one call: its interval, the hip it asks for (0: the
\* overload without hip), the steps jb and jt, the first and last index of
\* the for loop, and what the call produced.
QueryRecord(thetaMin, thetaMax, hip, ub, r, res) ==
    [made |-> TRUE, min |-> thetaMin, max |-> thetaMax, hip |-> hip,
     jb |-> StepJb(thetaMin, ub), jt |-> StepJt(thetaMax, ub),
     first |-> r.first, last |-> r.last, runs |-> LoopRuns(r),
     list |-> res.list, crash |-> res.crash]

\* One call retrieveFeatureListKVector(theta - eps, theta + eps[, hip], out)
\* as the pyramid method makes it for an observed angle theta; the method
\* has checked that mKVector and mFeatureList are not empty.
KVectorQuery ==
    /\ pc = "idle"
    /\ calls = 0
    /\ ~query.made
    /\ mKVector # <<>>
    /\ mFeatureList # <<>>
    /\ \E theta \in 0..MaxPos, e \in Tolerances, hip \in 0..Len(sky),
          ub \in UBChoices :
         query' = QueryRecord(theta - e, theta + e, hip, ub,
                              IndicesRead(theta - e, theta + e, ub),
                              IF hip = 0
                              THEN RetrieveFeatureListKVector(theta - e, theta + e, ub)
                              ELSE RetrieveFeatureListKVectorHip(theta - e, theta + e, hip, ub))
    /\ UNCHANGED <<dbVars, idVars, camVars, loadVars, mainVars>>

\* -------------------------------------------------------- identifyStars
Methods == {"TwoStar", "PyramidSQL", "PyramidKVector"}

Backend(m) == IF m = "PyramidSQL" THEN "sql" ELSE "kv"

\* A variant of PyramidFailure that tests the number of vectors first.
PyramidFailureRangeFirst(v, m) ==
    IF Len(v) < MinPyramidSpots THEN "RangeError"
    ELSE IF m = "PyramidSQL" /\ ~mOpenDb THEN "NoDatabase"
    ELSE IF m = "PyramidKVector" /\ (mKVector = <<>> \/ mFeatureList = <<>>)
    THEN "NoFeatureList"
    ELSE "none"

\* The exception thrown by the checks at the head of a pyramid method, in
\* the order of the checks; "none" when all pass.
PyramidFailure(v, m) ==
    IF m = "PyramidSQL" /\ ~mOpenDb THEN "NoDatabase"
    ELSE IF m = "PyramidKVector" /\ (mKVector = <<>> \/ mFeatureList = <<>>)
    THEN "NoFeatureList"
    ELSE IF Len(v) < MinPyramidSpots THEN "RangeError"
    ELSE "none"

\* Entry of identifyPyramidMethod / identifyPyramidMethodKVector up to the
\* first triad.
BeginPyramid(v, m) ==
    /\ stmts' = IF m = "PyramidSQL" /\ mOpenDb
                THEN Prepare(Prepare(NoStmts, "sqlStmt"), "sqlFinal")
                ELSE NoStmts
    /\ idList' = <<>>
    /\ triadIdx' = 1
    /\ identificationComplete' = FALSE
    /\ IF PyramidFailure(v, m) = "none"
       THEN outcome' = "running" /\ pc' = "pyramid"
       ELSE outcome' = PyramidFailure(v, m) /\ pc' = "idle"

\* identifyStars(starVectors, eps, method): the dispatch on the method.
IdentifyStars(v, e, m) ==
    /\ pc = "idle"
    /\ calls < MaxCalls
    /\ calls' = calls + 1
    /\ starVectors' = v
    /\ eps' = e
    /\ method' = m
    /\ prevVectors' = starVectors
    /\ prevIdList' = idList
    /\ prevOutcome' = outcome
    /\ IF m = "TwoStar"
       THEN /\ Begin2Star(v, e)
            /\ UNCHANGED <<triadIdx, identificationComplete>>
       ELSE /\ BeginPyramid(v, m)
            /\ UNCHANGED <<idTable, falseStars, unidentifiedStars, votes>>
    /\ UNCHANGED <<dbVars, kvVars, camVars, loadVars>>

\* The positions of the input permuted: output position x holds the
\* vector of position p[x].
Permuted(v, p) == [x \in DOMAIN v |-> v[p[x]]]

\* The permutations used for a second call: the first two vectors
\* exchanged.
Swaps(n) ==
    {p \in Perms(n) : p[1] = 2 /\ p[2] = 1 /\ \A x \in 3..n : p[x] = x}

\* One pass through the innermost for loop of the pyramid method.
PyramidTriad ==
    /\ pc = "pyramid"
    /\ ~identificationComplete
    /\ triadIdx <= Len(TriadOrder(Len(starVectors)))
    /\ \E ub \in (IF method = "PyramidKVector" THEN UBChoices ELSE {NoUB}) :
         \E body \in {TriadBody(Backend(method), starVectors, eps,
                                TriadOrder(Len(starVectors))[triadIdx], ub)} :
             IF body.crash
             THEN /\ outcome' = "crash"
                  /\ pc' = "idle"
                  /\ idList' = <<>>
                  /\ UNCHANGED <<triadIdx, identificationComplete>>
             ELSE /\ idList' = body.ids
                  /\ identificationComplete' = body.complete
                  /\ triadIdx' = triadIdx + 1
                  /\ UNCHANGED <<outcome, pc>>
    /\ UNCHANGED <<method, eps, starVectors, idTable, falseStars,
                   unidentifiedStars, votes, calls,
                   prevVectors, prevIdList, prevOutcome, stmts>>
    /\ UNCHANGED <<dbVars, kvVars, camVars, loadVars, mainVars>>

\* The loops are left: the handles are finalized (identifyPyramidMethod
\* only), return idList.
PyramidReturn ==
    /\ pc = "pyramid"
    /\ identificationComplete \/ triadIdx > Len(TriadOrder(Len(starVectors)))
    /\ stmts' = IF method = "PyramidSQL"
                THEN Finalize(Finalize(stmts, "sqlStmt"), "sqlFinal")
                ELSE stmts
    /\ outcome' = "ok"
    /\ pc' = "idle"
    /\ UNCHANGED <<method, eps, starVectors, idTable, idList, falseStars,
                   unidentifiedStars, votes, triadIdx, identificationComplete,
                   calls, prevVectors, prevIdList, prevOutcome>>
    /\ UNCHANGED <<dbVars, kvVars, camVars, loadVars, mainVars>>

\* ----------------------------------------------------------- StarCamera
\* A frame is a dark background (pixel value 0) with bright rectangles
\* that do not touch: blob [x, y, w, h, value] has its top left pixel at
\* column x, row y, is w pixels wide and h pixels high, and all its pixels
\* have the same value.  The frame has rows x cols pixels.  A cv::Mat
\* without data is NoFrame.
NoFrame == [loaded |-> FALSE, rows |-> 0, cols |-> 0, blobs |-> <<>>]

Blob(x, y, w, h, value) == [x |-> x, y |-> y, w |-> w, h |-> h, value |-> value]

PixelLevels == (DefaultThreshold - LevelSpread)..(DefaultThreshold + LevelSpread)

MinAreas == (DefaultMinArea - 1)..(DefaultMinArea + AreaSpread)

\* The frames of the image files: no, one or two rectangles; the second
\* one is a row of MaxBlobW pixels below the first.
Frames ==
    LET first == {Blob(1, 1, w, h, p) :
                    w \in 1..MaxBlobW, h \in 1..MaxBlobH, p \in PixelLevels}
        second == {Blob(1, MaxBlobH + 2, MaxBlobW, 1, p) : p \in PixelLevels}
    IN  {<<>>} \cup {<<b>> : b \in first}
        \cup {<<b, c>> : b \in first, c \in second}

\* The rows and cols a caller passes to getImageFromFile: a frame of one
\* pixel, a frame that just holds the rectangles of Frames, and a square
\* frame of twice the width of the widest rectangle.
FrameSizes ==
    {[rows |-> 1, cols |-> 1],
     [rows |-> MaxBlobH + 3, cols |-> MaxBlobW + 2],
     [rows |-> 2 * MaxBlobW, cols |-> 2 * MaxBlobW]}

\* mFrame.create(rows, cols) filled from the file: the rectangles lie
\* inside the frame.
Image(size, blobs) ==
    [loaded |-> TRUE, rows |-> size.rows, cols |-> size.cols, blobs |-> blobs]

Images ==
    {img \in {Image(size, blobs) : size \in FrameSizes, blobs \in Frames} :
        \A i \in DOMAIN img.blobs :
            /\ img.blobs[i].x + img.blobs[i].w <= img.cols
            /\ img.blobs[i].y + img.blobs[i].h <= img.rows}

\* The image files without a bright pixel.
DarkImages == {img \in Images : img.blobs = <<>>}

\* cv::threshold(src, dst, thresh, 0, THRESH_TOZERO) on one pixel:
\* dst = src if src > thresh, 0 otherwise.
ThresholdToZero(p, T) == IF p > T THEN p ELSE 0

\* The thresholded frame: every pixel of a rectangle through the threshold
\* (the background stays 0).
ThresholdFrame(frame, T) ==
    [loaded |-> TRUE, rows |-> frame.rows, cols |-> frame.cols,
     blobs |-> [i \in DOMAIN frame.blobs |->
                  [frame.blobs[i] EXCEPT !.value = ThresholdToZero(@, T)]]]

\* The connected components / external contours of a thresholded frame:
\* its rectangles that are not dark, in raster order.
Components(threshed) == SelectSeq(threshed.blobs, LAMBDA b : b.value > 0)

\* Spot(center, area); the center is kept as twice its coordinates.
Spot(cx2, cy2, area) == [cx2 |-> cx2, cy2 |-> cy2, area |-> area]

\* cv::minEnclosingCircle of the contour of b: four times the square of
\* the radius (the diagonal between the centres of the corner pixels).
Diameter2(b) == (b.w - 1) * (b.w - 1) + (b.h - 1) * (b.h - 1)

\* radius > minRadius, minRadius = sqrt(mMinArea / M_PI).
RadiusPasses(b, minArea) == PiNum * Diameter2(b) > 4 * PiDen * minArea

\* (unsigned) (pi * radius * radius) + 1
DiscArea(b) == (PiNum * Diameter2(b)) \div (4 * PiDen) + 1

\* computeWeightedCentroid: the pixels > 0 of mFrame inside the filled
\* contour, and the centroid (weightedY is computed from weightingX).
WeightedSpot(b) ==
    Spot(2 * b.x + (b.w - 1), 2 * b.y + (b.w - 1), b.w * b.h)

\* computeWeightedCentroidBoundingRect: area = rect.width * rect.height.
BoundingRectSpot(b) ==
    Spot(2 * b.x + (b.w - 1), 2 * b.y + (b.h - 1), b.w * b.h)

\* The geometric centre of the rectangle with the given area.
CenterSpot(b, area) == Spot(2 * b.x + (b.w - 1), 2 * b.y + (b.h - 1), area)

ContourMethods ==
    {"ContoursGeometric", "ContoursWeighted", "ContoursWeightedBoundingBox"}

CentroidingMethods ==
    ContourMethods \cup {"ConnectedComponentsGeometric", "ConnectedComponentsWeighted"}

\* The spot CentroidingContours computes for a contour that passed the
\* radius test.
ContourSpot(b, m) ==
    IF m = "ContoursGeometric" THEN CenterSpot(b, DiscArea(b))
    ELSE IF m = "ContoursWeighted" THEN WeightedSpot(b)
    ELSE BoundingRectSpot(b)

\* CentroidingContours(method): the spots pushed to mSpots.
CentroidingContours(comps, m, minArea) ==
    LET kept == SelectSeq(comps, LAMBDA b :
                    /\ RadiusPasses(b, minArea)
                    /\ m = "ContoursGeometric" \/ ContourSpot(b, m).area > minArea)
    IN  [i \in DOMAIN kept |-> ContourSpot(kept[i], m)]

\* CentroidingConnectedComponentsGeometric / ...Weighted: the spots pushed
\* to mSpots.
CentroidingConnectedComponents(comps) ==
    LET kept == SelectSeq(comps, LAMBDA b : b.w * b.h > ComponentAreaLimit)
    IN  [i \in DOMAIN kept |-> CenterSpot(kept[i], kept[i].w * kept[i].h)]

\* The second loop of CentroidingConnectedComponentsGeometric: the pixels
\* of the labels with more than 15 pixels are set to 129 in mThreshed.
MarkComponents(threshed) ==
    [threshed EXCEPT !.blobs =
        [i \in DOMAIN threshed.blobs |->
           IF threshed.blobs[i].value > 0
              /\ threshed.blobs[i].w * threshed.blobs[i].h > MarkAreaLimit
           THEN [threshed.blobs[i] EXCEPT !.value = MarkValue]
           ELSE threshed.blobs[i]]]

\* getImageFromFile(filename, rows, cols) on one of the files imgs
\* (mSpots is not touched).
ReadImage(imgs) ==
    \E opens \in BOOLEAN :
      /\ lastLoad' = LoadRecord("image", opens, ~opens)
      /\ IF opens
         THEN /\ \E img \in imgs : mFrame' = img
              /\ mThreshed' = NoFrame
              /\ camOutcome' = "ok"
         ELSE /\ camOutcome' = "OpenFailed"
              /\ UNCHANGED <<mFrame, mThreshed>>

\* A session loads one image before its extraction, and dark images
\* after it.
GetImageFromFile ==
    /\ ~mFrame.loaded \/ extractions > 0
    /\ ReadImage(IF extractions = 0 THEN Images ELSE DarkImages)
    /\ UNCHANGED <<mThreshold, mMinArea, mSpots, centroiding, extractions,
                   lastExtract, mCalibration>>
    /\ UNCHANGED <<dbVars, idVars, kvVars, mainVars>>

\* setThreshold(value)
SetThreshold ==
    /\ extractions = 0
    /\ \E value \in PixelLevels : mThreshold' = value
    /\ UNCHANGED <<mFrame, mMinArea, mThreshed, mSpots, centroiding,
                   camOutcome, extractions, lastExtract, mCalibration>>
    /\ UNCHANGED <<dbVars, idVars, kvVars, loadVars, mainVars>>

\* setMinArea(value)
SetMinArea ==
    /\ extractions = 0
    /\ \E value \in MinAreas : mMinArea' = value
    /\ UNCHANGED <<mFrame, mThreshold, mThreshed, mSpots, centroiding,
                   camOutcome, extractions, lastExtract, mCalibration>>
    /\ UNCHANGED <<dbVars, idVars, kvVars, loadVars, mainVars>>

\* The members loadCalibration fills.  The constructor leaves them
\* without a value.
NoCalibration == [read |-> FALSE, focal |-> 0]

\* The calibration files: ten numbers; they differ in the focal length.
CalibrationFiles == {[read |-> TRUE, focal |-> f] : f \in 1..2}

\* loadCalibration(filename): a file that cannot be opened is not
\* reported; every file >> on the failed stream stores nothing, and the
\* call returns.
ReadCalibration ==
    /\ \E opens \in BOOLEAN :
         /\ lastLoad' = LoadRecord("calibration", opens, FALSE)
         /\ IF opens
            THEN \E file \in CalibrationFiles : mCalibration' = file
            ELSE UNCHANGED mCalibration
    /\ camOutcome' = "ok"

LoadCalibration ==
    /\ ReadCalibration
    /\ UNCHANGED <<mFrame, mThreshold, mMinArea, mThreshed, mSpots, centroiding,
                   extractions, lastExtract>>
    /\ UNCHANGED <<dbVars, idVars, kvVars, mainVars>>

\* The record of the calls extractSpots(m) of one method m.
NoExtract == [runs |-> 0, frame |-> NoFrame, spots |-> <<>>]

\* mSpots.clear() followed by the push_back calls of the centroiding.
ExtractedSpotsAppended(old, found) == old \o found

ExtractedSpots(old, found) == found

\* extractSpots(m)
Extract(m) ==
    /\ centroiding' = m
    /\ IF ~mFrame.loaded
       THEN /\ mSpots' = ExtractedSpots(mSpots, <<>>)
            /\ camOutcome' = "NoFrame"
            /\ UNCHANGED mThreshed
       ELSE /\ camOutcome' = "ok"
            /\ mSpots' =
                 ExtractedSpots(mSpots,
                     IF m \in ContourMethods
                     THEN CentroidingContours(
                              Components(ThresholdFrame(mFrame, mThreshold)),
                              m, mMinArea)
                     ELSE CentroidingConnectedComponents(
                              Components(ThresholdFrame(mFrame, mThreshold))))
            /\ mThreshed' =
                 IF m = "ConnectedComponentsGeometric"
                 THEN MarkComponents(ThresholdFrame(mFrame, mThreshold))
                 ELSE ThresholdFrame(mFrame, mThreshold)
    /\ lastExtract' = [lastExtract EXCEPT ![m] =
                         [runs |-> @.runs + 1, frame |-> mFrame, spots |-> mSpots']]

ExtractSpots ==
    /\ extractions < MaxExtractions
    /\ extractions' = extractions + 1
    /\ \E m \in CentroidingMethods : Extract(m)
    /\ UNCHANGED <<mFrame, mThreshold, mMinArea, mCalibration>>
    /\ UNCHANGED <<dbVars, idVars, kvVars, loadVars, mainVars>>

\* ------------------------------------------------------------- main()
\* The image files of the command line: a frame of the largest size with
\* zero to four bright rows of MaxBlobW pixels, one below the other.
DriverImages ==
    {Image([rows |-> 2 * MaxBlobW, cols |-> 2 * MaxBlobW],
           [i \in 1..n |-> Blob(1, 2 * i - 1, MaxBlobW, 1,
                                DefaultThreshold + LevelSpread)]) :
        n \in 0..MaxSpots}

\* calculateSpotVectors: the direction of a spot, as its position on the
\* great circle along the rows of the frame (one unit per pixel).
SpotVector(spot) == spot.cy2 \div 2

\* An exception that no handler of main catches ends the process in
\* std::terminate (abort); main itself returns 0 or 1.
Terminate ==
    /\ pcMain' = "exited"
    /\ exitStatus' = "abort"

\* cmd.parse(argc, argv): a TCLAP::ArgException is caught, main returns 1.
MainParse ==
    /\ pcMain = "start"
    /\ \E argsOk \in BOOLEAN :
         IF argsOk
         THEN pcMain' = "configure" /\ UNCHANGED exitStatus
         ELSE pcMain' = "exited" /\ exitStatus' = "1"
    /\ UNCHANGED <<filesLeft, mSpotVectors>>
    /\ UNCHANGED <<dbVars, idVars, kvVars, camVars, loadVars>>

\* starCam.setMinArea(area.getValue()); starCam.setThreshold(threshold.getValue())
MainConfigure ==
    /\ pcMain = "configure"
    /\ \E a \in MinAreas : mMinArea' = a
    /\ \E t \in PixelLevels : mThreshold' = t
    /\ pcMain' = "calibrate"
    /\ UNCHANGED <<exitStatus, filesLeft, mSpotVectors>>
    /\ UNCHANGED <<mFrame, mThreshed, mSpots, centroiding, camOutcome,
                   extractions, lastExtract, mCalibration>>
    /\ UNCHANGED <<dbVars, idVars, kvVars, loadVars>>

\* starCam.loadCalibration(calibrationFile.getValue().c_str())
MainLoadCalibration ==
    /\ pcMain = "calibrate"
    /\ ReadCalibration
    /\ pcMain' = "files"
    /\ UNCHANGED <<exitStatus, filesLeft, mSpotVectors>>
    /\ UNCHANGED <<mFrame, mThreshold, mMinArea, mThreshed, mSpots, centroiding,
                   extractions, lastExtract>>
    /\ UNCHANGED <<dbVars, idVars, kvVars>>

\* The head of the loop over the file names: getImageFromFile of the next
\* file.
MainGetImage ==
    /\ pcMain = "files"
    /\ filesLeft > 0
    /\ filesLeft' = filesLeft - 1
    /\ ReadImage(DriverImages)
    /\ IF lastLoad'.threw
       THEN Terminate
       ELSE pcMain' = "extract" /\ UNCHANGED exitStatus
    /\ UNCHANGED <<mSpotVectors, mThreshold, mMinArea, mSpots, centroiding,
                   extractions, lastExtract, mCalibration>>
    /\ UNCHANGED <<dbVars, idVars, kvVars>>

\* identifyStars(eps): starCam.extractSpots(ConnectedComponentsWeighted)
MainExtract ==
    /\ pcMain = "extract"
    /\ Extract("ConnectedComponentsWeighted")
    /\ IF camOutcome' = "ok"
       THEN pcMain' = "project" /\ UNCHANGED exitStatus
       ELSE Terminate
    /\ UNCHANGED <<filesLeft, mSpotVectors, mFrame, mThreshold, mMinArea,
                   extractions, mCalibration>>
    /\ UNCHANGED <<dbVars, idVars, kvVars, loadVars>>

\* identifyStars(eps): starCam.calculateSpotVectors(), which throws when
\* there is no spot.
MainProject ==
    /\ pcMain = "project"
    /\ IF mSpots = <<>>
       THEN Terminate /\ UNCHANGED mSpotVectors
       ELSE /\ mSpotVectors' = [i \in DOMAIN mSpots |-> SpotVector(mSpots[i])]
            /\ pcMain' = "kvector"
            /\ UNCHANGED exitStatus
    /\ UNCHANGED filesLeft
    /\ UNCHANGED <<dbVars, idVars, kvVars, camVars, loadVars>>

\* identifyStars(eps): starId.loadFeatureListKVector(kVectorFile.getValue())
MainLoadKVector ==
    /\ pcMain = "kvector"
    /\ LoadKVectorFile
    /\ IF lastLoad'.threw
       THEN Terminate
       ELSE pcMain' = "identify" /\ UNCHANGED exitStatus
    /\ UNCHANGED <<filesLeft, mSpotVectors>>
    /\ UNCHANGED <<sky, mOpenDb, mDb>>
    /\ UNCHANGED <<idVars, kvVars, camVars>>

\* identifyStars(eps): starId.identifyStars(starCam.getSpotVectors(), eps)
\* with the default method of the declaration.
MainIdentify ==
    /\ pcMain = "identify"
    /\ \E m \in Methods, e \in Tolerances : IdentifyStars(mSpotVectors, e, m)
    /\ pcMain' = "output"
    /\ UNCHANGED <<exitStatus, filesLeft, mSpotVectors>>

\* identifyStars(eps): the id list is printed when the call has returned
\* it; an exception or a trap of the call ends the process.
MainOutput ==
    /\ pcMain = "output"
    /\ pc = "idle"
    /\ IF outcome = "ok"
       THEN pcMain' = "files" /\ UNCHANGED exitStatus
       ELSE Terminate
    /\ UNCHANGED <<filesLeft, mSpotVectors>>
    /\ UNCHANGED <<dbVars, idVars, kvVars, camVars, loadVars>>

\* The loop over the file names is left: return 0.
MainReturn ==
    /\ pcMain = "files"
    /\ filesLeft = 0
    /\ pcMain' = "exited"
    /\ exitStatus' = "0"
    /\ UNCHANGED <<filesLeft, mSpotVectors>>
    /\ UNCHANGED <<dbVars, idVars, kvVars, camVars, loadVars>>

\* ------------------------------------------------------- specifications
InitIdentifier ==
    /\ pc = "idle"
    /\ method = "TwoStar"
    /\ eps = 0
    /\ starVectors = <<>>
    /\ idTable = <<>>
    /\ idList = <<>>
    /\ falseStars = 0
    /\ unidentifiedStars = 0
    /\ votes = <<>>
    /\ triadIdx = 1
    /\ identificationComplete = FALSE
    /\ outcome = "none"
    /\ calls = 0
    /\ prevVectors = <<>>
    /\ prevIdList = <<>>
    /\ prevOutcome = "none"
    /\ stmts = NoStmts

InitCamera ==
    /\ mFrame = NoFrame
    /\ mThreshold = DefaultThreshold
    /\ mMinArea = DefaultMinArea
    /\ mThreshed = NoFrame
    /\ mSpots = <<>>
    /\ centroiding = "none"
    /\ camOutcome = "none"
    /\ extractions = 0
    /\ lastExtract = [m \in CentroidingMethods |-> NoExtract]
    /\ mCalibration = NoCalibration

\* The state after construction of a StarIdentifier and a StarCamera.
Constructed ==
    /\ query = NoQuery
    /\ lastLoad = NoLoad
    /\ pcMain = "start"
    /\ exitStatus = "none"
    /\ mSpotVectors = <<>>
    /\ InitCamera
    /\ mOpenDb = FALSE
    /\ mDb = <<>>
    /\ mFeatureList = <<>>
    /\ mKVector = <<>>
    /\ mQ = 0
    /\ mM = 0
    /\ InitIdentifier

Init ==
    /\ sky \in Skies
    /\ filesLeft = 0
    /\ Constructed

\* The input lists tried with a method.
InputsFor(m) ==
    IF m = "TwoStar" THEN InputLists(1, MaxTwoStarSpots)
    ELSE IF m = "PyramidKVector" THEN InputLists(MinPyramidSpots - 1, MaxKVSpots)
    ELSE InputLists(MinPyramidSpots - 1, MaxSpots)

FirstCall ==
    /\ calls = 0
    /\ \E m \in Methods, e \in Tolerances :
         \E v \in InputsFor(m) : IdentifyStars(v, e, m)
    /\ UNCHANGED mainVars

SecondCall ==
    /\ calls > 0
    /\ outcome = "ok"
    /\ \E p \in Swaps(Len(starVectors)) :
         IdentifyStars(Permuted(starVectors, p), eps, method)
    /\ UNCHANGED mainVars

Next ==
    \/ OpenDb
    \/ FirstCall
    \/ SecondCall
    \/ ValidationRound
    \/ ValidationExit
    \/ PyramidTriad
    \/ PyramidReturn

Spec == Init /\ [][Next]_vars

\* A session on the k-vector back-end: the file is loaded, and then either
\* one range query is followed or one call of the pyramid method.
KVectorCall ==
    /\ calls = 0
    /\ ~query.made
    /\ \E e \in Tolerances :
         \E v \in InputsFor("PyramidKVector") : IdentifyStars(v, e, "PyramidKVector")
    /\ UNCHANGED mainVars

NextKV ==
    \/ LoadFeatureListKVector
    \/ KVectorQuery
    \/ KVectorCall
    \/ PyramidTriad
    \/ PyramidReturn

SpecKV == Init /\ [][NextKV]_vars

\* A session that identifies the same vectors twice: with the pyramid
\* method on the database, then with the pyramid method on the k-vector.
IndexedCall ==
    /\ calls = 0
    /\ mOpenDb
    /\ mKVector # <<>>
    /\ \E e \in Tolerances :
         \E v \in InputLists(MinPyramidSpots, MaxKVSpots) :
             IdentifyStars(v, e, "PyramidSQL")
    /\ UNCHANGED mainVars

KVectorRecall ==
    /\ calls = 1
    /\ outcome = "ok"
    /\ method = "PyramidSQL"
    /\ IdentifyStars(starVectors, eps, "PyramidKVector")
    /\ UNCHANGED mainVars

NextBoth ==
    \/ OpenDb
    \/ LoadFeatureListKVector
    \/ IndexedCall
    \/ KVectorRecall
    \/ PyramidTriad
    \/ PyramidReturn

SpecBoth == Init /\ [][NextBoth]_vars

\* A session of the camera: the configuration, a frame, one extraction.
InitCam ==
    /\ sky = <<0, 1>>
    /\ filesLeft = 0
    /\ Constructed

NextCam ==
    \/ GetImageFromFile
    \/ SetThreshold
    \/ SetMinArea
    \/ ExtractSpots

SpecCam == InitCam /\ [][NextCam]_vars

\* A session of the loaders: the calibration, the k-vector file and the
\* image files are read, in any order.
NextLoad ==
    \/ LoadCalibration
    \/ LoadFeatureListKVector
    \/ GetImageFromFile

SpecLoad == InitCam /\ [][NextLoad]_vars

\* A run of the driver on image files.
InitMain ==
    /\ sky = <<0, 1>>
    /\ filesLeft \in 0..MaxFiles
    /\ Constructed

NextMain ==
    \/ MainParse
    \/ MainConfigure
    \/ MainLoadCalibration
    \/ MainGetImage
    \/ MainExtract
    \/ MainProject
    \/ MainLoadKVector
    \/ MainIdentify
    \/ PyramidTriad
    \/ PyramidReturn
    \/ MainOutput
    \/ MainReturn

SpecMain == InitMain /\ [][NextMain]_vars

\* ----------------------------------------------------------- properties
\* A call has returned its id list to the caller.
Returned == pc = "idle" /\ outcome = "ok"

PyramidMethods == {"PyramidSQL", "PyramidKVector"}

\* All pairwise angles of the catalog of s differ.
DistinctAngles(s) ==
    \A f, g \in Range(CatalogOf(s)) : f.theta = g.theta => f = g

\* The input is the noise-free image of exactly the stars of the catalog.
NoiseFreeCall ==
    /\ calls = 1
    /\ DistinctAngles(sky)
    /\ starVectors = sky
    /\ eps = 1

\* C1: on a catalog with distinct angles and the noise-free vectors of its
\* stars, a call that returns gives every vector its catalog id.
C1_TrueIds ==
    (Returned /\ NoiseFreeCall) => idList = [x \in DOMAIN sky |-> x]

AppliedSwap ==
    CHOOSE p \in Perms(Len(starVectors)) : starVectors = Permuted(prevVectors, p)

\* C3: the second call of a session, made on a permutation of the input of
\* the first, returns the ids of the first call permuted the same way.
C3_Equivariant ==
    (Returned /\ calls = 2 /\ prevOutcome = "ok") =>
        idList = Permuted(prevIdList, AppliedSwap)

\* C4: in the validation loop the false-star count never passes the
\* number of spots, and a call whose vote maps are all empty (F = N) is
\* not sent into another round.
C4_FalseStarsBounded ==
    pc = "validate" =>
        /\ falseStars <= Len(starVectors)
        /\ falseStars = Len(starVectors) => ~LoopCondition

\* C5: a pyramid call that returns without a confirmed triad returns -1
\* at every position.
C5_AllUnidentified ==
    (Returned /\ method \in PyramidMethods /\ ~identificationComplete) =>
        \A x \in DOMAIN idList : idList[x] = -1

\* The catalog back-end of a pyramid method is loaded.
BackendLoaded(m) ==
    IF m = "PyramidSQL" THEN mOpenDb
    ELSE mKVector # <<>> /\ mFeatureList # <<>>

\* A pyramid call on fewer than 4 vectors has ended.
ShortPyramidCall ==
    /\ pc = "idle"
    /\ calls > 0
    /\ method \in PyramidMethods
    /\ Len(starVectors) < MinPyramidSpots

C7_IndicesInRange ==
    query.made =>
        /\ query.jb \in 0..(Len(mKVector) - 1)
        /\ query.jt \in 0..(Len(mKVector) - 1)
        /\ query.runs =>
             /\ 0 <= query.first
             /\ 0 <= query.last
             /\ query.last <= Len(mFeatureList) - 1

\* The k-vector index in memory is well formed: the features are sorted by
\* angle and K[j] is the index of the last feature with angle <= Q + M*j.
WellFormedIndex ==
    /\ mFeatureList # <<>>
    /\ \A a, b \in DOMAIN mFeatureList :
           a < b => mFeatureList[a].theta <= mFeatureList[b].theta
    /\ mKVector = KVectorOf(mFeatureList, mQ, mM)

\* C8: on a well-formed index a call that returns hands back every feature
\* whose angle lies strictly between its bounds.
C8_Superset ==
    (query.made /\ query.hip = 0 /\ WellFormedIndex /\ ~query.crash) =>
        \A f \in Range(SqlRange(mFeatureList, query.min, query.max)) :
            f \in Range(query.list)

\* An extraction has returned its spots.
Extracted == extractions > 0 /\ camOutcome = "ok" /\ mThreshed.loaded

\* C9: after an extraction every spot of the spot list has an area above
\* the configured minimum area, whatever the centroiding method.
C9_AreaAboveMinArea ==
    Extracted => \A i \in DOMAIN mSpots : mSpots[i].area > mMinArea

\* C10: after an extraction every pixel of the thresholded frame has the
\* value of the frame's pixel when that is at least the threshold, and 0
\* otherwise.
C10_KeepsAtThreshold ==
    (Extracted /\ centroiding # "ConnectedComponentsGeometric") =>
        \A i \in DOMAIN mFrame.blobs :
            mThreshed.blobs[i].value =
                IF mFrame.blobs[i].value >= mThreshold
                THEN mFrame.blobs[i].value ELSE 0

\* C11: the center of every spot of the spot list lies inside the
\* rectangle of the frame that is loaded (0 <= x < cols, 0 <= y < rows).
C11_CenterInsideFrame ==
    \A i \in DOMAIN mSpots :
        /\ 0 <= mSpots[i].cx2 /\ mSpots[i].cx2 < 2 * mFrame.cols
        /\ 0 <= mSpots[i].cy2 /\ mSpots[i].cy2 < 2 * mFrame.rows

\* C12: a loader whose file cannot be opened ends with an exception.
C12_UnopenedFileThrows ==
    (lastLoad.op # "none" /\ ~lastLoad.opened) => lastLoad.threw

\* C13: a call with a negative tolerance makes no catalog query and ends
\* with the invalid-argument error and without an id list, whatever the
\* method.
C13_NegativeToleranceRejected ==
    (calls > 0 /\ eps < 0) =>
        /\ pc = "idle"
        /\ outcome = "InvalidArgument"
        /\ idList = <<>>

\* C14: the driver process ends with exit code 0 or 1.
C14_ExitCodeZeroOrOne ==
    pcMain = "exited" => exitStatus \in {"0", "1"}

\* The pipeline of the driver has run on a frame whose samples are all
\* zero, with threshold 64, and the driver has left it.
DarkFrameRun ==
    /\ mFrame.loaded
    /\ mFrame.blobs = <<>>
    /\ mThreshold = DefaultThreshold
    /\ pcMain \in {"files", "exited"}

\* C15: on a frame of zeros with threshold 64 the extraction yields no
\* spot and the pipeline extract, project, identify ends without an
\* error, with the empty id list.
C15_DarkFrameEmptyIdList ==
    DarkFrameRun =>
        /\ mSpots = <<>>
        /\ exitStatus # "abort"
        /\ calls > 0 /\ outcome = "ok" /\ idList = <<>>

\* A round of the validation loop that demotes a spot.
DemotingRound ==
    /\ pc = "validate"
    /\ idTable' # idTable \/ falseStars' # falseStars

\* C16: in every round that demotes a spot, the spot demoted has the
\* smallest confirm count of the round.
C16_DemotesWeakest ==
    [][DemotingRound =>
          \A y \in DOMAIN votes' : votes'[MinIndex(votes')] <= votes'[y]]_vars

\* The catalog holds a feature for the two ids of the spot pair p whose
\* angle differs by at most e from the observed angle of the two spots.
CatalogConfirms(db, v, e, ids, p) ==
    \E f \in Range(db) :
        /\ {f.id1, f.id2} = {ids[p[1]], ids[p[2]]}
        /\ Abs(f.theta - ObservedTheta(v, p[1], p[2])) <= e

\* C17: a round of the validation loop gives every spot with a tentative
\* id one confirmation for each other such spot whose pair of ids the
\* catalog holds with an angle within the tolerance of the observed angle
\* of the two spots.
C17_ConfirmCounts ==
    [][(pc = "validate" /\ pc' = "validate") =>
          \A x \in DOMAIN idList :
              idList[x] >= 0 =>
                  votes'[x] = Cardinality({p \in ComparedPairs(idList) :
                                  /\ x \in {p[1], p[2]}
                                  /\ CatalogConfirms(mDb, starVectors, eps, idList, p)})]_vars

\* h is a key of the vote map m with the largest count, and the smallest
\* such key.
TopCandidate(m, h) ==
    /\ h \in DOMAIN m
    /\ \A k \in DOMAIN m : m[k] < m[h] \/ (m[k] = m[h] /\ h <= k)

\* C18: whenever the two-star method gives a spot a tentative id, at the
\* initial assignment and at a re-pick after a demotion, the id has the
\* largest vote count of the spot's map and is the smallest id with that
\* count.
C18_TopCandidateChosen ==
    [][\A x \in DOMAIN idList' :
          (/\ pc' = "validate"
           /\ idList'[x] >= 0
           /\ pc = "idle" \/ idList'[x] # idList[x])
          => TopCandidate(idTable'[x], idList'[x])]_vars

\* A spot was demoted and re-picked an id that ties with another one.
C18_Witness ==
    /\ pc = "validate"
    /\ \E x \in DOMAIN idList :
         /\ idList[x] > 0
         /\ \E k \in DOMAIN idTable[x] : k > 0 /\ idTable[x][k] = 0
         /\ \E k \in DOMAIN idTable[x] :
              k # idList[x] /\ idTable[x][k] = idTable[x][idList[x]]

\* The list holds the feature of the unordered pair of catalog ids {a, b}.
HoldsPair(list, a, b) ==
    \E c \in DOMAIN list : {list[c].id1, list[c].id2} = {a, b}

\* The triples (H_I, H_J, H_K) of catalog ids whose three pairs are held
\* by the three candidate lists of a triad.
CatalogTriples(listIJ, listIK, listJK) ==
    {h \in (1..Len(sky)) \X (1..Len(sky)) \X (1..Len(sky)) :
        /\ HoldsPair(listIJ, h[1], h[2])
        /\ HoldsPair(listIK, h[1], h[3])
        /\ HoldsPair(listJK, h[2], h[3])}

\* The candidate lists of the triad the pyramid method on the database
\* is about to try.
TriadListsNow ==
    LET t == TriadOrder(Len(starVectors))[triadIdx]
    IN  [IJ |-> SqlRange(mDb, ObservedTheta(starVectors, t.i + 1, t.j + 1) - eps,
                         ObservedTheta(starVectors, t.i + 1, t.j + 1) + eps),
         IK |-> SqlRange(mDb, ObservedTheta(starVectors, t.i + 1, t.k + 1) - eps,
                         ObservedTheta(starVectors, t.i + 1, t.k + 1) + eps),
         JK |-> SqlRange(mDb, ObservedTheta(starVectors, t.j + 1, t.k + 1) - eps,
                         ObservedTheta(starVectors, t.j + 1, t.k + 1) + eps),
         i |-> t.i + 1, j |-> t.j + 1, k |-> t.k + 1]

\* A pass of the pyramid method on the database through one triad.
TriadPass ==
    /\ pc = "pyramid"
    /\ method = "PyramidSQL"
    /\ triadIdx' = triadIdx + 1

\* C19: in every pass the match counter is the number of catalog triples
\* whose three pairs are in the three lists; with exactly one such triple
\* the three spots of the triad get its ids, and otherwise the triad
\* leaves every spot at -1.
C19_TriadResolvedByUniqueTriple ==
    [][TriadPass =>
          /\ Cardinality(TriadMatches(TriadListsNow.IJ, TriadListsNow.IK,
                                      TriadListsNow.JK))
               = Cardinality(CatalogTriples(TriadListsNow.IJ, TriadListsNow.IK,
                                            TriadListsNow.JK))
          /\ IF Cardinality(CatalogTriples(TriadListsNow.IJ, TriadListsNow.IK,
                                           TriadListsNow.JK)) = 1
             THEN <<idList'[TriadListsNow.i], idList'[TriadListsNow.j],
                    idList'[TriadListsNow.k]>>
                  \in CatalogTriples(TriadListsNow.IJ, TriadListsNow.IK,
                                     TriadListsNow.JK)
             ELSE \A x \in DOMAIN idList' : idList'[x] = -1]_vars

\* The catalog ids x that confirm spot r against a triad at the spots
\* i, j, k (1-based) with the ids hI, hJ, hK: each of the three lists,
\* filtered by the id of its triad spot, holds the pair of that id and x.
ConfirmingIds(i, j, k, hI, hJ, hK, r) ==
    {x \in 1..Len(sky) :
        /\ HoldsPair(SqlRangeHip(mDb, ObservedTheta(starVectors, i, r) - eps,
                                 ObservedTheta(starVectors, i, r) + eps, hI), hI, x)
        /\ HoldsPair(SqlRangeHip(mDb, ObservedTheta(starVectors, j, r) - eps,
                                 ObservedTheta(starVectors, j, r) + eps, hJ), hJ, x)
        /\ HoldsPair(SqlRangeHip(mDb, ObservedTheta(starVectors, k, r) - eps,
                                 ObservedTheta(starVectors, k, r) + eps, hK), hK, x)}

\* The id spot r must have after the confirmation step.
ConfirmedId(i, j, k, hI, hJ, hK, r) ==
    IF Cardinality(ConfirmingIds(i, j, k, hI, hJ, hK, r)) = 1
    THEN CHOOSE x \in ConfirmingIds(i, j, k, hI, hJ, hK, r) : TRUE
    ELSE -1

\* C20: in every pass of the pyramid method on the database that treats
\* its triad as resolved, a spot r outside the triad gets the id x when x
\* is the only catalog id that all three filtered lists pair with the id
\* of their triad spot, and stays -1 otherwise.
C20_ConfirmedByUniqueId ==
    [][(TriadPass /\ idList'[TriadListsNow.i] # -1) =>
          \A r \in (DOMAIN idList') \ {TriadListsNow.i, TriadListsNow.j, TriadListsNow.k} :
              idList'[r] = ConfirmedId(TriadListsNow.i, TriadListsNow.j, TriadListsNow.k,
                                       idList'[TriadListsNow.i], idList'[TriadListsNow.j],
                                       idList'[TriadListsNow.k], r)]_vars

\* The list order holds the triads in the order of the loop nest (dj,
\* then dk, then i), and it holds every i < j < k of n spots.
TriadsListed(order, n) ==
    /\ \A x, y \in DOMAIN order :
           x < y =>
             StepLess(<<order[x].j - order[x].i, order[x].k - order[x].j,
                        order[x].i>>,
                      <<order[y].j - order[y].i, order[y].k - order[y].j,
                        order[y].i>>)
    /\ {<<order[x].i, order[x].j, order[x].k>> : x \in DOMAIN order}
         = {t \in (0..(n - 1)) \X (0..(n - 1)) \X (0..(n - 1)) :
               t[1] < t[2] /\ t[2] < t[3]}

TriadsInLoopOrder(n) == TriadsListed(TriadOrder(n), n)

\* The triad that was tried last.
LastTriad == TriadOrder(Len(starVectors))[triadIdx - 1]

LastTriadIds ==
    [I |-> idList[LastTriad.i + 1], J |-> idList[LastTriad.j + 1],
     K |-> idList[LastTriad.k + 1]]

\* A call of the pyramid method on the database is in its loops or has
\* returned.
InPyramidSQL ==
    /\ method = "PyramidSQL"
    /\ pc = "pyramid" \/ (pc = "idle" /\ outcome = "ok")

\* Once a triad is confirmed, the list holds the ids of the triad and,
\* for every other spot, the result of its check against the triad.
TriadAccepted ==
    (InPyramidSQL /\ identificationComplete) =>
        /\ LastTriadIds.I # -1
        /\ \A r \in DOMAIN idList \ {LastTriad.i + 1, LastTriad.j + 1, LastTriad.k + 1} :
               idList[r] = ConfirmSpot("sql", starVectors, eps, LastTriad,
                                       LastTriadIds, r, NoUB).id

\* A step of a running call tries the next triad of the order, and only
\* while no triad is confirmed; the return hands back the list as it is.
TriadStep ==
    (pc = "pyramid" /\ method = "PyramidSQL") =>
        /\ (pc' = "pyramid" /\ <<triadIdx, idList, identificationComplete>>'
                                # <<triadIdx, idList, identificationComplete>>)
             => (~identificationComplete /\ triadIdx' = triadIdx + 1)
        /\ pc' = "idle" =>
             /\ identificationComplete \/ triadIdx > Len(TriadOrder(Len(starVectors)))
             /\ outcome' = "ok"
             /\ idList' = idList

\* C21: the triads are tried in the order dj, dk, i, each once; after a
\* triad with a confirmed spot no further triad is tried, all its other
\* spots have been checked, and the list returned is that of the triad.
C21_TriadOrderAndStop ==
    /\ [](InPyramidSQL => TriadsInLoopOrder(Len(starVectors)))
    /\ []TriadAccepted
    /\ [][TriadStep]_vars

\* A call on five vectors returned after a triad that is not the last and
\* against which both other spots were confirmed.
C21_Witness ==
    /\ InPyramidSQL /\ pc = "idle"
    /\ identificationComplete
    /\ Len(starVectors) = 5
    /\ triadIdx - 1 < Len(TriadOrder(5))
    /\ \A x \in DOMAIN idList : idList[x] # -1

\* The last call of loadFeatureListKVector opened its file.
KVectorLoaded == lastLoad.op = "kvector" /\ lastLoad.opened

\* C22: after a load that opened its file, the feature list and K hold
\* exactly the records of the file, in file order, whether or not the text
\* ends with a line break; the two arrays always have the same length.
C22_LoadStoresRecords ==
    /\ Len(mFeatureList) = Len(mKVector)
    /\ KVectorLoaded =>
         /\ mFeatureList = CatalogOf(sky)
         /\ mKVector = KVectorOf(CatalogOf(sky), mQ, mM)

\* Sums over the pixels of a uniform rectangle b: of p, and twice those
\* of p * x and p * y.
PixelSum(b) == b.value * b.w * b.h

PixelSumX2(b) == b.value * b.h * (2 * b.w * b.x + b.w * (b.w - 1))

PixelSumY2(b) == b.value * b.w * (2 * b.h * b.y + b.h * (b.h - 1))

\* C23: with CONTOUR_WEIGHTED every spot has the center
\* (sum(p*x)/sum(p), sum(p*y)/sum(p)) of a component of the thresholded
\* image, y taken from the y-weighted sum.
C23_WeightedCenter ==
    (Extracted /\ centroiding = "ContoursWeighted") =>
        \A i \in DOMAIN mSpots :
            \E b \in Range(Components(mThreshed)) :
                /\ mSpots[i].cx2 * PixelSum(b) = PixelSumX2(b)
                /\ mSpots[i].cy2 * PixelSum(b) = PixelSumY2(b)

\* The k-vector method has ended on the vectors and the tolerance of the
\* call of the method on the database before it.
BothReturned ==
    /\ pc = "idle"
    /\ calls = 2
    /\ method = "PyramidKVector"
    /\ prevVectors = starVectors
    /\ prevOutcome = "ok"

\* C24: on the same catalog, tolerance and vectors the pyramid method on
\* the k-vector returns the id list that the pyramid method on the
\* database returns.
C24_KVectorRefinesIndexed ==
    BothReturned => (outcome = "ok" /\ idList = prevIdList)

\* A step that is a call of extractSpots.
ExtractStep == extractions' = extractions + 1

\* The call repeats an earlier call of its method on the frame that is
\* stored now.
RepeatsExtract ==
    /\ lastExtract[centroiding'].runs > 0
    /\ lastExtract[centroiding'].frame = mFrame

C26_OneVectorPerSpot ==
    [][pcMain = "project" =>
          mSpotVectors' = [i \in DOMAIN mSpots' |-> SpotVector(mSpots'[i])]]_vars

\* The spots whose tentative id is -1.
FalseSpots(ids) == {i \in DOMAIN ids : ids[i] = -1}

\* C27: whenever the condition of the while loop of the two-star method
\* is evaluated, falseStars is the number of spots with tentative id -1
\* and lies in 0..N; a round never demotes a spot that is -1 already.
C27_FalseStarsCountsDemoted ==
    /\ [](pc = "validate" =>
             /\ falseStars = Cardinality(FalseSpots(idList))
             /\ 0 <= falseStars /\ falseStars <= Len(starVectors))
    /\ [][(pc = "validate" /\ falseStars' = falseStars + 1) =>
             Cardinality(FalseSpots(idList')) = Cardinality(FalseSpots(idList)) + 1]_vars

\* C28: in the id list a call returns, no catalog id other than -1 stands
\* at two positions.
C28_IdsDistinct ==
    Returned =>
        \A i, j \in DOMAIN idList :
            (i # j /\ idList[i] = idList[j]) => idList[i] = -1

\* C29: a call of loadFeatureListKVector that cannot open its file leaves
\* Q, M, K and the feature list as they were.
C29_FailedLoadKeepsIndex ==
    [][(lastLoad'.op = "kvector" /\ ~lastLoad'.opened) =>
          UNCHANGED <<mQ, mM, mKVector, mFeatureList>>]_vars

\* An identification call has ended, by a return or by an exception.
CallEnded == pc = "idle" /\ calls > 0

\* C30: when an identification call has ended, every query handle it
\* prepared has been finalized.
C30_HandlesFinalized ==
    CallEnded => \A h \in DOMAIN stmts : stmts[h] # "prepared"

====
